---- MODULE Spec2Model ----
(***************************************************************************)
(* Model of package ticker (github.com/goaux/ticker): Task.Run drives a    *)
(* task at every tick of a time.Ticker until the task fails, the context   *)
(* is done or the execution limit is reached.                              *)
(*                                                                         *)
(* One Run call is modelled.  Run blocks at two places, the task call and  *)
(* the select statement, so it is cut into steps there: the position of    *)
(* the call is pc.  The environment is the clock, the runtime timer that   *)
(* feeds the ticker's channel, and the owner of the context.               *)
(***************************************************************************)
EXTENDS Integers, Sequences, FiniteSets, TLC

VARIABLES
    pc,            \* position of the caller / of the Run call
    now,           \* the clock, in time units
    deadline,      \* deadline of ctx, NoDeadline when it has none
    ctxErr,        \* ctx.Err()
    doneAtPc,      \* history: pc when ctx became done
    doneAtStarted, \* history: task calls started when ctx became done
    task,          \* the Task value Run is called on
    d,             \* argument d of Run
    options,       \* argument options of Run: the options not applied yet
    c,             \* the config Run assembles
    limit,         \* local variable limit of runLimit
    ticker,        \* the time.Ticker t: "none", "running", "stopped"
    tickerAt,      \* time of time.NewTicker(d)
    nextTick,      \* time the runtime timer fires next
    tickPending,   \* a value is waiting in t.C
    ticksFired,    \* history: sends the timer attempted
    ticksRecv,     \* history: values received from t.C
    started,       \* history: task calls started
    completed,     \* history: task calls that returned nil
    active,        \* history: task calls in progress
    firstAt,       \* history: time the first task call started
    taskErr,       \* history: the non-nil error a task call returned
    result         \* what Run returned, NotReturned before

vars == << pc, now, deadline, ctxErr, doneAtPc, doneAtStarted, task, d,
           options, c, limit, ticker, tickerAt, nextTick, tickPending,
           ticksFired, ticksRecv, started, completed, active, firstAt,
           taskErr, result >>

---------------------------------------------------------------------------
(* Bounds *)

MaxTime == 4
MaxInterval == 2
MaxLimit == 2
MaxOptions == 2

---------------------------------------------------------------------------
(* Values *)

nil == "nil"
NotReturned == "not returned"
NoDeadline == -1

ErrInvalidArgument == "invalid argument"
ErrNonPositiveInterval == "invalid argument: non-positive interval"
ErrNilFunction == "invalid argument: function must not be nil"
Canceled == "context canceled"
DeadlineExceeded == "context deadline exceeded"
ErrTask == "task error"
ErrOther == "other task error"

TaskErrors == {ErrTask, ErrOther}
Funcs == {nil, "fn"}
Intervals == (-1) .. MaxInterval
Deadlines == {NoDeadline} \cup (0 .. MaxTime)
LimitValues == (-2) .. MaxLimit

\* errors.Is over the %w chains of the package's errors
Unwrap(err) ==
    IF err \in {ErrNonPositiveInterval, ErrNilFunction}
    THEN ErrInvalidArgument
    ELSE nil

Is(err, target) ==
    \/ err = target
    \/ Unwrap(err) # nil /\ Unwrap(err) = target

---------------------------------------------------------------------------
(* Options *)

\* the option types: type immediate bool, type limit int
WithImmediate(v) == [immediate |-> v]
WithLimit(v) == [limit |-> v]

Option == {WithImmediate(v) : v \in BOOLEAN} \cup {WithLimit(v) : v \in LimitValues}

OptionLists == UNION {[1 .. n -> Option] : n \in 0 .. MaxOptions}

\* apply that builds the config anew from the option's own field
applyResets(o, cfg) ==
    IF "immediate" \in DOMAIN o
    THEN [Immediate |-> o.immediate, Limit |-> -1]
    ELSE [Immediate |-> FALSE, Limit |-> o.limit]

apply(o, cfg) ==
    IF "immediate" \in DOMAIN o
    THEN [cfg EXCEPT !.Immediate = o.immediate]
    ELSE [cfg EXCEPT !.Limit = o.limit]

config == [Immediate |-> FALSE, Limit |-> -1]

RECURSIVE applyAll(_, _)
applyAll(opts, cfg) ==
    IF opts = << >>
    THEN cfg
    ELSE applyAll(Tail(opts), apply(Head(opts), cfg))

New(fn) == fn

---------------------------------------------------------------------------
(* Pieces of state change shared by the steps of Run *)

ctxVars == << deadline, ctxErr, doneAtPc, doneAtStarted >>
tickVars == << ticker, tickerAt, nextTick, tickPending, ticksFired >>
histVars == << started, completed, active, firstAt, taskErr >>

\* a ticker whose first tick is due at once instead of one interval from now
NewTickerFiresAtOnce(dd) ==
    /\ ticker' = "running"
    /\ tickerAt' = now
    /\ nextTick' = now
    /\ tickPending' = FALSE
    /\ ticksFired' = 0

\* t := time.NewTicker(dd): the first tick is due one interval from now
NewTicker(dd) ==
    /\ ticker' = "running"
    /\ tickerAt' = now
    /\ nextTick' = now + dd
    /\ tickPending' = FALSE
    /\ ticksFired' = 0

\* the defer t.Stop() left out
StopTickerMissing ==
    UNCHANGED tickVars

\* the deferred t.Stop(): no more ticks are sent, the channel is not drained
StopTicker ==
    /\ ticker' = "stopped"
    /\ UNCHANGED << tickerAt, nextTick, tickPending, ticksFired >>

\* a return statement reached before any ticker exists
ReturnEarly(err) ==
    /\ pc' = "done"
    /\ result' = err
    /\ UNCHANGED tickVars

\* a return statement reached after defer t.Stop() was registered
ReturnDeferred(err) ==
    /\ pc' = "done"
    /\ result' = err
    /\ StopTicker

\* The history counters count up to MaxCount and stay there.  A run within
\* MaxTime never gets that far; only a run followed beyond the clock's last
\* time does.
MaxCount == MaxTime + 2
Count(n) == IF n < MaxCount THEN n + 1 ELSE n

\* task() is entered
CallTask ==
    /\ started' = Count(started)
    /\ active' = active + 1
    /\ firstAt' = IF started = 0 THEN now ELSE firstAt
    /\ UNCHANGED << completed, taskErr >>

\* task() comes back with err
TaskReturned(err) ==
    /\ active' = active - 1
    /\ completed' = IF err = nil THEN Count(completed) ELSE completed
    /\ taskErr' = IF err = nil THEN taskErr ELSE err
    /\ UNCHANGED << started, firstAt >>

---------------------------------------------------------------------------
(* The caller *)

Init ==
    /\ pc = "init"
    /\ now = 0
    /\ deadline \in Deadlines
    /\ ctxErr = nil
    /\ doneAtPc = "none"
    /\ doneAtStarted = -1
    /\ task = nil
    /\ d = 0
    /\ options = << >>
    /\ c = config
    /\ limit = 0
    /\ ticker = "none"
    /\ tickerAt = -1
    /\ nextTick = -1
    /\ tickPending = FALSE
    /\ ticksFired = 0
    /\ ticksRecv = 0
    /\ started = 0
    /\ completed = 0
    /\ active = 0
    /\ firstAt = -1
    /\ taskErr = nil
    /\ result = NotReturned

\* task := ticker.New(fn)
NewTask(fn) ==
    /\ pc = "init"
    /\ pc' = "idle"
    /\ task' = New(fn)
    /\ UNCHANGED << now, ctxVars, d, options, c, limit, tickVars, ticksRecv,
                    histVars, result >>

---------------------------------------------------------------------------
(* Task.runLimit *)
(* The select statement of the loop is two steps of the model, one per     *)
(* case.  A case can be taken when its channel is ready: t.C holds a tick, *)
(* ctx is done.  When both are ready Go chooses one of them at random, so  *)
(* both steps are enabled and neither has priority.                        *)

\* runLimit up to its first blocking point: the immediate task call or the select
runLimitBegin(dd, cfg) ==
    /\ limit' = cfg.Limit
    /\ result' = result
    /\ IF cfg.Immediate
       THEN /\ pc' = "runLimit_immediate"
            /\ CallTask
            /\ UNCHANGED tickVars
       ELSE /\ pc' = "runLimit_select"
            /\ NewTicker(dd)
            /\ UNCHANGED histVars

\* runLimitImmediate without "if limit == 0 { return nil }": the ticker is
\* made and the loop test ends the call
runLimitImmediateNoEarlyReturn(err) ==
    /\ pc = "runLimit_immediate"
    /\ TaskReturned(err)
    /\ IF err # nil
       THEN /\ ReturnEarly(err)
            /\ limit' = limit
       ELSE /\ limit' = limit - 1
            /\ IF limit' > 0
               THEN /\ pc' = "runLimit_select"
                    /\ result' = result
                    /\ NewTicker(d)
               ELSE /\ pc' = "done"
                    /\ result' = nil
                    /\ ticker' = "stopped"
                    /\ tickerAt' = now
                    /\ nextTick' = now + d
                    /\ UNCHANGED << tickPending, ticksFired >>
    /\ UNCHANGED << now, ctxVars, task, d, options, c, ticksRecv >>

\* runLimitImmediate that does not count the immediate call
runLimitImmediateNotCounted(err) ==
    /\ pc = "runLimit_immediate"
    /\ TaskReturned(err)
    /\ limit' = limit
    /\ IF err # nil
       THEN ReturnEarly(err)
       ELSE /\ pc' = "runLimit_select"
            /\ result' = result
            /\ NewTicker(d)
    /\ UNCHANGED << now, ctxVars, task, d, options, c, ticksRecv >>

\* the immediate task call of runLimit returns err
runLimitImmediate(err) ==
    /\ pc = "runLimit_immediate"
    /\ TaskReturned(err)
    /\ IF err # nil
       THEN /\ ReturnEarly(err)
            /\ limit' = limit
       ELSE /\ limit' = limit - 1
            /\ IF limit' = 0
               THEN ReturnEarly(nil)
               ELSE /\ pc' = "runLimit_select"
                    /\ result' = result
                    /\ NewTicker(d)
    /\ UNCHANGED << now, ctxVars, task, d, options, c, ticksRecv >>

\* select chooses case <-t.C and enters task()
runLimitTick ==
    /\ pc = "runLimit_select"
    /\ tickPending
    /\ tickPending' = FALSE
    /\ ticksRecv' = Count(ticksRecv)
    /\ CallTask
    /\ pc' = "runLimit_task"
    /\ UNCHANGED << now, ctxVars, task, d, options, c, limit, ticker, tickerAt,
                    nextTick, ticksFired, result >>

\* select chooses case <-ctx.Done()
runLimitDone ==
    /\ pc = "runLimit_select"
    /\ ctxErr # nil
    /\ ReturnDeferred(ctxErr)
    /\ UNCHANGED << now, ctxVars, task, d, options, c, limit, ticksRecv, histVars >>

\* runLimitTask with the loop test off by one: for ; limit >= 0; limit--
runLimitTaskOffByOne(err) ==
    /\ pc = "runLimit_task"
    /\ TaskReturned(err)
    /\ IF err # nil
       THEN /\ ReturnDeferred(err)
            /\ limit' = limit
       ELSE /\ limit' = limit - 1
            /\ IF limit' >= 0
               THEN /\ pc' = "runLimit_select"
                    /\ result' = result
                    /\ UNCHANGED tickVars
               ELSE ReturnDeferred(nil)
    /\ UNCHANGED << now, ctxVars, task, d, options, c, ticksRecv >>

\* runLimitTask without limit--
runLimitTaskNoDecrement(err) ==
    /\ pc = "runLimit_task"
    /\ TaskReturned(err)
    /\ limit' = limit
    /\ IF err # nil
       THEN ReturnDeferred(err)
       ELSE /\ pc' = "runLimit_select"
            /\ result' = result
            /\ UNCHANGED tickVars
    /\ UNCHANGED << now, ctxVars, task, d, options, c, ticksRecv >>

\* the task call of a tick returns err; limit-- and the loop test follow
runLimitTask(err) ==
    /\ pc = "runLimit_task"
    /\ TaskReturned(err)
    /\ IF err # nil
       THEN /\ ReturnDeferred(err)
            /\ limit' = limit
       ELSE /\ limit' = limit - 1
            /\ IF limit' > 0
               THEN /\ pc' = "runLimit_select"
                    /\ result' = result
                    /\ UNCHANGED tickVars
               ELSE ReturnDeferred(nil)
    /\ UNCHANGED << now, ctxVars, task, d, options, c, ticksRecv >>

---------------------------------------------------------------------------
(* Task.run *)

\* runBegin that starts the ticker before the immediate task call
runBeginTickerFirst(dd, cfg) ==
    /\ limit' = limit
    /\ result' = result
    /\ NewTicker(dd)
    /\ IF cfg.Immediate
       THEN /\ pc' = "run_immediate"
            /\ CallTask
       ELSE /\ pc' = "run_select"
            /\ UNCHANGED histVars

\* run up to its first blocking point
runBegin(dd, cfg) ==
    /\ limit' = limit
    /\ result' = result
    /\ IF cfg.Immediate
       THEN /\ pc' = "run_immediate"
            /\ CallTask
            /\ UNCHANGED tickVars
       ELSE /\ pc' = "run_select"
            /\ NewTicker(dd)
            /\ UNCHANGED histVars

\* the immediate task call of run returns err
runImmediate(err) ==
    /\ pc = "run_immediate"
    /\ TaskReturned(err)
    /\ IF err # nil
       THEN ReturnEarly(err)
       ELSE /\ pc' = "run_select"
            /\ result' = result
            /\ NewTicker(d)
    /\ UNCHANGED << now, ctxVars, task, d, options, c, limit, ticksRecv >>

\* runTick on a channel that keeps a backlog: the receive leaves a tick behind
runTickBacklog ==
    /\ pc = "run_select"
    /\ tickPending
    /\ tickPending' = TRUE
    /\ ticksRecv' = Count(ticksRecv)
    /\ CallTask
    /\ pc' = "run_task"
    /\ UNCHANGED << now, ctxVars, task, d, options, c, limit, ticker, tickerAt,
                    nextTick, ticksFired, result >>

\* runTick that starts the task with go task() and goes back to the select
runTickAsync ==
    /\ pc = "run_select"
    /\ tickPending
    /\ tickPending' = FALSE
    /\ ticksRecv' = Count(ticksRecv)
    /\ CallTask
    /\ pc' = "run_select"
    /\ UNCHANGED << now, ctxVars, task, d, options, c, limit, ticker, tickerAt,
                    nextTick, ticksFired, result >>

\* select chooses case <-t.C and enters task()
runTick ==
    /\ pc = "run_select"
    /\ tickPending
    /\ tickPending' = FALSE
    /\ ticksRecv' = Count(ticksRecv)
    /\ CallTask
    /\ pc' = "run_task"
    /\ UNCHANGED << now, ctxVars, task, d, options, c, limit, ticker, tickerAt,
                    nextTick, ticksFired, result >>

\* runDone behind the ticks: the Done case is taken only when no tick waits
runDoneAfterTicks ==
    /\ pc = "run_select"
    /\ ctxErr # nil
    /\ ~tickPending
    /\ ReturnDeferred(ctxErr)
    /\ UNCHANGED << now, ctxVars, task, d, options, c, limit, ticksRecv, histVars >>

\* runDone that ends the loop without an error when ctx is done
runDoneSwallow ==
    /\ pc = "run_select"
    /\ ctxErr # nil
    /\ ReturnDeferred(nil)
    /\ UNCHANGED << now, ctxVars, task, d, options, c, limit, ticksRecv, histVars >>

\* select chooses case <-ctx.Done()
runDone ==
    /\ pc = "run_select"
    /\ ctxErr # nil
    /\ ReturnDeferred(ctxErr)
    /\ UNCHANGED << now, ctxVars, task, d, options, c, limit, ticksRecv, histVars >>

\* runTask that looks at ctx.Err() before the task's error
runTaskCtxFirst(err) ==
    /\ pc = "run_task"
    /\ TaskReturned(err)
    /\ IF ctxErr # nil
       THEN ReturnDeferred(ctxErr)
       ELSE IF err # nil
       THEN ReturnDeferred(err)
       ELSE /\ pc' = "run_select"
            /\ result' = result
            /\ UNCHANGED tickVars
    /\ UNCHANGED << now, ctxVars, task, d, options, c, limit, ticksRecv >>

\* runTask that drops the task's error and keeps looping
runTaskSwallow(err) ==
    /\ pc = "run_task"
    /\ TaskReturned(err)
    /\ pc' = "run_select"
    /\ result' = result
    /\ UNCHANGED tickVars
    /\ UNCHANGED << now, ctxVars, task, d, options, c, limit, ticksRecv >>

\* the task call of a tick returns err
runTask(err) ==
    /\ pc = "run_task"
    /\ TaskReturned(err)
    /\ IF err # nil
       THEN ReturnDeferred(err)
       ELSE /\ pc' = "run_select"
            /\ result' = result
            /\ UNCHANGED tickVars
    /\ UNCHANGED << now, ctxVars, task, d, options, c, limit, ticksRecv >>

---------------------------------------------------------------------------
(* Task.Run *)

\* validate with the two checks in the other order
validateNilFirst(dd, t) ==
    IF t = nil
    THEN ErrNilFunction
    ELSE IF dd <= 0
    THEN ErrNonPositiveInterval
    ELSE nil

\* validate without the nil check
validateNoNilCheck(dd, t) ==
    IF dd <= 0
    THEN ErrNonPositiveInterval
    ELSE nil

\* the argument checks of Run, in the order Run makes them: the error, or nil
validate(dd, t) ==
    IF dd <= 0
    THEN ErrNonPositiveInterval
    ELSE IF t = nil
    THEN ErrNilFunction
    ELSE nil

\* dispatch that takes limit 0 for "no limit"
dispatchZeroUnbounded(cfg) ==
    IF cfg.Limit > 0
    THEN "runLimit"
    ELSE "run"

\* dispatch that knows only the default -1 as "no limit"
dispatchOnlyDefault(cfg) ==
    IF cfg.Limit = 0
    THEN "return"
    ELSE IF cfg.Limit = -1
    THEN "run"
    ELSE "runLimit"

\* where Run goes once the config is assembled
dispatch(cfg) ==
    IF cfg.Limit = 0
    THEN "return"
    ELSE IF cfg.Limit > 0
    THEN "runLimit"
    ELSE "run"

\* err := task.Run(ctx, dd, opts...), up to its return or first blocking point
Run(dd, opts) ==
    /\ pc = "idle"
    /\ d' = dd
    /\ IF validate(dd, task) # nil
       THEN /\ ReturnEarly(validate(dd, task))
            /\ options' = opts
            /\ UNCHANGED << c, limit, histVars >>
       ELSE LET cfg == applyAll(opts, config) IN
            /\ c' = cfg
            /\ options' = << >>
            /\ CASE dispatch(cfg) = "return" ->
                      /\ ReturnEarly(nil)
                      /\ UNCHANGED << limit, histVars >>
                 [] dispatch(cfg) = "runLimit" -> runLimitBegin(dd, cfg)
                 [] dispatch(cfg) = "run" -> runBegin(dd, cfg)
    /\ UNCHANGED << now, ctxVars, task, ticksRecv >>

---------------------------------------------------------------------------
(* The environment: the runtime timer, the owner of ctx, the clock *)

\* the runtime timer sends on t.C, whose buffer holds one value; a send that
\* finds the buffer full is dropped
TickerFire ==
    /\ ticker = "running"
    /\ now >= nextTick
    /\ tickPending' = TRUE
    /\ ticksFired' = ticksFired + 1
    /\ nextTick' = nextTick + d
    /\ UNCHANGED << pc, now, ctxVars, task, d, options, c, limit, ticker,
                    tickerAt, ticksRecv, histVars, result >>

\* the owner of ctx calls cancel()
Cancel ==
    /\ ctxErr = nil
    /\ ctxErr' = Canceled
    /\ doneAtPc' = pc
    /\ doneAtStarted' = started
    /\ UNCHANGED << pc, now, deadline, task, d, options, c, limit, tickVars,
                    ticksRecv, histVars, result >>

\* the deadline of ctx passes
Deadline ==
    /\ ctxErr = nil
    /\ deadline # NoDeadline
    /\ now >= deadline
    /\ ctxErr' = DeadlineExceeded
    /\ doneAtPc' = pc
    /\ doneAtStarted' = started
    /\ UNCHANGED << pc, now, deadline, task, d, options, c, limit, tickVars,
                    ticksRecv, histVars, result >>

\* a timer event is due at the present time
Due ==
    \/ ticker = "running" /\ now >= nextTick
    \/ ctxErr = nil /\ deadline # NoDeadline /\ now >= deadline

\* one time unit passes; time is counted from the call of Run to its return
Advance ==
    /\ pc \notin {"init", "idle", "done"}
    /\ now < MaxTime
    /\ ~Due
    /\ now' = now + 1
    /\ UNCHANGED << pc, ctxVars, task, d, options, c, limit, tickVars,
                    ticksRecv, histVars, result >>

---------------------------------------------------------------------------

Next ==
    \/ \E fn \in Funcs : NewTask(fn)
    \/ \E dd \in Intervals, opts \in OptionLists : Run(dd, opts)
    \/ \E err \in TaskErrors \cup {nil} : runLimitImmediate(err)
    \/ runLimitTick
    \/ runLimitDone
    \/ \E err \in TaskErrors \cup {nil} : runLimitTask(err)
    \/ \E err \in TaskErrors \cup {nil} : runImmediate(err)
    \/ runTick
    \/ runDone
    \/ \E err \in TaskErrors \cup {nil} : runTask(err)
    \/ TickerFire
    \/ Cancel
    \/ Deadline
    \/ Advance

Spec == Init /\ [][Next]_vars

---------------------------------------------------------------------------
(* Properties *)

InTask == pc \in {"runLimit_immediate", "runLimit_task", "run_immediate", "run_task"}
SelectPcs == {"runLimit_select", "run_select"}

\* C1: with a limit n > 0, the moment the n-th task call returns nil Run has
\* returned nil after exactly n calls, whatever ctx.Err() is then; and Run
\* returns nil from a bounded run only after exactly n calls that all
\* returned nil.
C1_LimitExact ==
    /\ (c.Limit > 0 /\ completed = c.Limit) =>
           (pc = "done" /\ result = nil /\ started = c.Limit)
    /\ (c.Limit > 0 /\ pc = "done" /\ result = nil) =>
           (started = c.Limit /\ completed = c.Limit)

\* a bounded run of more than one call returned nil although ctx became done
\* during its last task call
C1_Witness ==
    /\ pc = "done"
    /\ result = nil
    /\ c.Limit > 1
    /\ started = c.Limit
    /\ doneAtPc = "runLimit_task"
    /\ doneAtStarted = c.Limit

\* C2: if ctx becomes done while Run is at its select, no task call starts
\* after that and Run returns ctx.Err().
C2_NoCallAfterDone ==
    doneAtPc \in SelectPcs =>
        /\ started = doneAtStarted
        /\ (pc = "done" => result = ctxErr)

\* C3: once a task call has returned a non-nil error, Run has returned exactly
\* that error and no further task call was started: the failing call is the
\* last one.
C3_TaskErrorIsFinal ==
    taskErr # nil =>
        /\ pc = "done"
        /\ result = taskErr
        /\ active = 0
        /\ started = completed + 1

\* a periodic call failed after an earlier one succeeded, with ctx already done
C3_Witness ==
    /\ taskErr = ErrOther
    /\ completed >= 1
    /\ ticksRecv >= 1
    /\ ctxErr # nil
    /\ doneAtStarted < started
    /\ result = ErrOther

Range(seq) == {seq[i] : i \in DOMAIN seq}

\* C4: a Run call with d <= 0 has returned ErrNonPositiveInterval without a
\* task call and without a ticker, whatever the options, ctx and the task
\* are; in particular when the task is nil as well.
C4_NonPositiveInterval ==
    (pc = "done" /\ d <= 0) =>
        /\ result = ErrNonPositiveInterval
        /\ started = 0
        /\ ticker = "none"

\* d <= 0 with a nil task, WithLimit(0) and WithImmediate(true), ctx done
C4_Witness ==
    /\ pc = "done"
    /\ d <= 0
    /\ task = nil
    /\ WithLimit(0) \in Range(options)
    /\ WithImmediate(TRUE) \in Range(options)
    /\ ctxErr # nil
    /\ result = ErrNonPositiveInterval

\* C5: New(nil) is the nil Task, and a Run call on a nil Task with d > 0 has
\* returned ErrNilFunction without a task call and without a ticker, whatever
\* the options are (WithLimit(0) included).
C5_NilFunction ==
    /\ New(nil) = nil
    /\ (pc = "done" /\ d > 0 /\ task = nil) =>
           /\ result = ErrNilFunction
           /\ started = 0
           /\ ticker = "none"

\* a nil task, d > 0 and WithLimit(0) last among the options
C5_Witness ==
    /\ pc = "done"
    /\ d > 0
    /\ task = nil
    /\ options # << >>
    /\ options[Len(options)] = WithLimit(0)
    /\ result = ErrNilFunction

\* C6: with d > 0 and a non-nil task, a Run call whose assembled limit is 0
\* has returned nil without a task call and without a ticker, whatever
\* Immediate and ctx.Err() are.
C6_LimitZero ==
    (d > 0 /\ task # nil /\ c.Limit = 0) =>
        /\ pc = "done"
        /\ result = nil
        /\ started = 0
        /\ ticker = "none"

\* limit 0 with Immediate set and ctx done before Run was called
C6_Witness ==
    /\ pc = "done"
    /\ c.Limit = 0
    /\ c.Immediate
    /\ doneAtPc = "idle"
    /\ result = nil

\* C7: with Immediate the first task call is made while no ticker exists and
\* takes no tick (every later call takes one); without it every call takes a
\* tick, the first one not before one interval after the ticker was started
\* at the entry of the loop.
C7_FirstCall ==
    /\ (pc \in {"runLimit_immediate", "run_immediate"}) =>
           (c.Immediate /\ started = 1 /\ ticker = "none" /\ ticksRecv = 0)
    /\ (started >= 1 /\ c.Immediate) =>
           /\ ticksRecv = started - 1
           /\ firstAt = 0
           /\ ticker # "none" => tickerAt >= firstAt
    /\ (started >= 1 /\ ~c.Immediate) =>
           /\ ticksRecv = started
           /\ ticksFired >= 1
           /\ tickerAt = 0
           /\ firstAt >= tickerAt + d

\* no Immediate, interval of two time units: the first call came at time 2
C7_Witness ==
    /\ ~c.Immediate
    /\ d = 2
    /\ started = 1
    /\ firstAt = 2

\* C8: ctx is looked at only at the select.  While a task call is in progress
\* Run has not returned; when Run has returned ctx.Err() every call it
\* started had returned nil; and a call that fails makes Run return the
\* task's error also when ctx is done.
C8_DoneOnlyAtSelect ==
    /\ InTask => (active = 1 /\ result = NotReturned)
    /\ (result \in {Canceled, DeadlineExceeded}) =>
           (result = ctxErr /\ active = 0 /\ started = completed /\ taskErr = nil)
    /\ (taskErr # nil) => result = taskErr

\* ctx became done during a periodic task call, which then failed
C8_Witness ==
    /\ doneAtPc \in {"runLimit_task", "run_task"}
    /\ doneAtStarted = started
    /\ taskErr # nil
    /\ result = taskErr

\* C9: at most one task call is in progress, and one is in progress exactly
\* while Run is inside a task call.
C9_NoOverlap ==
    /\ active \in {0, 1}
    /\ active = 1 <=> InTask

\* a task call in progress during which the timer fired at least twice
C9_Witness ==
    /\ pc = "run_task"
    /\ active = 1
    /\ ticksFired >= ticksRecv + 2

\* C10: after Run has returned no ticker is running: a ticker that was
\* started is stopped, and none was created when Run returned on a failed
\* check, on limit 0, on a failed immediate call or on a limit the immediate
\* call exhausted.
C10_TickerReleased ==
    pc = "done" =>
        /\ ticker # "running"
        /\ (result \in {ErrNonPositiveInterval, ErrNilFunction}) => ticker = "none"
        /\ c.Limit = 0 => ticker = "none"
        /\ (c.Immediate /\ started = 1 /\ taskErr # nil) => ticker = "none"
        /\ (c.Immediate /\ c.Limit = 1 /\ result = nil) => ticker = "none"
        /\ ticksRecv >= 1 => ticker = "stopped"
        /\ (result \in {Canceled, DeadlineExceeded}) => ticker = "stopped"

\* Run returned ctx.Err() with a tick left in the stopped ticker's channel
C10_Witness ==
    /\ pc = "done"
    /\ ticker = "stopped"
    /\ tickPending
    /\ result = DeadlineExceeded

---------------------------------------------------------------------------
(* The assembly of the config, on its own: the caller holds an option list *)
(* and Run folds it into the config.                                       *)

InitFold ==
    /\ pc = "fold"
    /\ now = 0
    /\ deadline = NoDeadline
    /\ ctxErr = nil
    /\ doneAtPc = "none"
    /\ doneAtStarted = -1
    /\ task = "fn"
    /\ d = 1
    /\ options \in OptionLists
    /\ c = config
    /\ limit = 0
    /\ ticker = "none"
    /\ tickerAt = -1
    /\ nextTick = -1
    /\ tickPending = FALSE
    /\ ticksFired = 0
    /\ ticksRecv = 0
    /\ started = 0
    /\ completed = 0
    /\ active = 0
    /\ firstAt = -1
    /\ taskErr = nil
    /\ result = NotReturned

\* c := &config{Limit: -1}; for _, opt := range options { opt.apply(c) }
Assemble ==
    /\ pc = "fold"
    /\ pc' = "folded"
    /\ c' = applyAll(options, config)
    /\ UNCHANGED << now, ctxVars, task, d, options, limit, tickVars, ticksRecv,
                    histVars, result >>

NextFold == Assemble

SpecFold == InitFold /\ [][NextFold]_vars

IsLimit(o) == "limit" \in DOMAIN o

Last(S) == CHOOSE i \in S : \A j \in S : j <= i

\* the value of the last WithLimit of opts, -1 when it has none
LastLimit(opts) ==
    LET S == {i \in DOMAIN opts : IsLimit(opts[i])}
    IN  IF S = {} THEN -1 ELSE opts[Last(S)].limit

\* the value of the last WithImmediate of opts, FALSE when it has none
LastImmediate(opts) ==
    LET S == {i \in DOMAIN opts : ~IsLimit(opts[i])}
    IN  IF S = {} THEN FALSE ELSE opts[Last(S)].immediate

\* opts with the options at i and i + 1 exchanged
Swap(opts, i) ==
    [k \in DOMAIN opts |->
        IF k = i THEN opts[i + 1] ELSE IF k = i + 1 THEN opts[i] ELSE opts[k]]

\* C11: the assembled config has the value of the last WithLimit of the list
\* (-1 without one) and of the last WithImmediate (false without one), and
\* exchanging a WithImmediate with a neighbouring WithLimit gives the same
\* config.
C11_Fold ==
    pc = "folded" =>
        /\ c.Limit = LastLimit(options)
        /\ c.Immediate = LastImmediate(options)
        /\ \A i \in 1 .. Len(options) - 1 :
               IsLimit(options[i]) # IsLimit(options[i + 1]) =>
                   applyAll(Swap(options, i), config) = c

\* two WithLimit in a row: the second one, 0, is the limit
C11_Witness ==
    /\ pc = "folded"
    /\ options = << WithLimit(MaxLimit), WithLimit(0) >>
    /\ c = [Immediate |-> FALSE, Limit |-> 0]

RunLimitPcs == {"runLimit_immediate", "runLimit_select", "runLimit_task"}
RunPcs == {"run_immediate", "run_select", "run_task"}

\* C12: a negative limit of any value sends Run where no WithLimit at all
\* sends it, into run: while such a call is in progress it is inside run,
\* runLimit and its counter are never entered, and the call never returns
\* nil.
C12_NegativeIsUnbounded ==
    /\ \A v \in LimitValues, b \in BOOLEAN :
           v < 0 => dispatch(applyAll(<< WithImmediate(b), WithLimit(v) >>, config))
                        = dispatch(applyAll(<< WithImmediate(b) >>, config))
    /\ (c.Limit < 0 /\ pc \notin {"init", "idle", "fold", "folded", "done"}) =>
           (pc \in RunPcs /\ limit = 0)
    /\ pc \in RunPcs => c.Limit < 0
    /\ (c.Limit < 0 /\ pc = "done") => (limit = 0 /\ result # nil)

\* a run with WithLimit(-2) in its second periodic task call
C12_Witness ==
    /\ c.Limit = -2
    /\ pc = "run_task"
    /\ started >= 2
    /\ ticksRecv >= 2

\* the config the arguments of Run describe: the options still unapplied
\* folded into c
Configured == applyAll(options, c)

CtxErrors == {Canceled, DeadlineExceeded}
ArgErrors == {ErrNonPositiveInterval, ErrNilFunction}

\* C13, as claimed: Run returns nil only with limit 0 or when the limit-th
\* task call has returned nil; with a negative limit Run returns only the
\* task's error or ctx.Err(); and it returns ctx.Err() only when ctx is done.
C13_Original ==
    pc = "done" =>
        /\ result = nil =>
               \/ Configured.Limit = 0
               \/ Configured.Limit > 0 /\ completed = Configured.Limit
        /\ Configured.Limit < 0 => result \in TaskErrors \cup CtxErrors
        /\ result \in CtxErrors => result = ctxErr

\* C13, amended: as claimed, but with a negative limit Run may also return
\* one of the two argument errors, namely the one the argument checks give.
C13_Outcomes ==
    pc = "done" =>
        /\ result = nil =>
               \/ Configured.Limit = 0
               \/ /\ Configured.Limit > 0
                  /\ completed = Configured.Limit
                  /\ started = Configured.Limit
        /\ Configured.Limit < 0 =>
               result \in ArgErrors \cup TaskErrors \cup CtxErrors
        /\ result \in ArgErrors => result = validate(d, task)
        /\ result \in TaskErrors => result = taskErr
        /\ result \in CtxErrors => result = ctxErr

\* an unbounded run ended by cancel() after two task calls
C13_Witness ==
    /\ pc = "done"
    /\ c.Limit < 0
    /\ completed >= 2
    /\ result = Canceled

---------------------------------------------------------------------------
(* Prompt runs: a bounded Run call whose task succeeds in no time and      *)
(* whose goroutine is never kept waiting.  The clock does not move while   *)
(* a task call is in progress or a case of the select is ready, and only   *)
(* the deadline of ctx ends the context.                                   *)

ScenarioTime == 7
ScenarioLimit == 3

InitPrompt ==
    /\ pc = "init"
    /\ now = 0
    /\ deadline \in 0 .. ScenarioTime
    /\ ctxErr = nil
    /\ doneAtPc = "none"
    /\ doneAtStarted = -1
    /\ task = nil
    /\ d = 0
    /\ options = << >>
    /\ c = config
    /\ limit = 0
    /\ ticker = "none"
    /\ tickerAt = -1
    /\ nextTick = -1
    /\ tickPending = FALSE
    /\ ticksFired = 0
    /\ ticksRecv = 0
    /\ started = 0
    /\ completed = 0
    /\ active = 0
    /\ firstAt = -1
    /\ taskErr = nil
    /\ result = NotReturned

\* task.Run(ctx, dd, WithImmediate(b), WithLimit(n)) with n > 0
RunPrompt ==
    \E dd \in 1 .. MaxInterval, n \in 1 .. ScenarioLimit, b \in BOOLEAN :
        Run(dd, << WithImmediate(b), WithLimit(n) >>)

\* a case of the select is ready
SelectReady == pc \in SelectPcs /\ (tickPending \/ ctxErr # nil)

\* one time unit passes while Run is blocked in the select
AdvancePrompt ==
    /\ pc \notin {"init", "idle", "done"}
    /\ now < ScenarioTime
    /\ ~Due
    /\ ~InTask
    /\ ~SelectReady
    /\ now' = now + 1
    /\ UNCHANGED << pc, ctxVars, task, d, options, c, limit, tickVars,
                    ticksRecv, histVars, result >>

NextPrompt ==
    \/ NewTask("fn")
    \/ RunPrompt
    \/ runLimitImmediate(nil)
    \/ runLimitTick
    \/ runLimitDone
    \/ runLimitTask(nil)
    \/ TickerFire
    \/ Deadline
    \/ AdvancePrompt

SpecPrompt == InitPrompt /\ [][NextPrompt]_vars

\* C14: a prompt run with limit n and no immediate call whose deadline lies
\* strictly after the n-th tick (n intervals after the call) returns nil
\* after exactly n task calls, at the n-th tick; by the time the deadline
\* passes it has returned.
C14_LimitBeforeDeadline ==
    (pc \notin {"init", "idle"} /\ ~c.Immediate /\ deadline > c.Limit * d) =>
        /\ pc = "done" =>
               (result = nil /\ started = c.Limit /\ now = c.Limit * d)
        /\ ctxErr # nil => pc = "done"
        /\ now > c.Limit * d => pc = "done"

\* interval 2, limit 3, deadline 7 (100ms, 3, 350ms): nil after three calls
C14_Witness ==
    /\ d = 2
    /\ c = [Immediate |-> FALSE, Limit |-> 3]
    /\ deadline = 7
    /\ pc = "done"
    /\ started = 3
    /\ now = 6
    /\ result = nil

\* C15: a ticker is started only while no task call is in progress, with an
\* empty channel and its first tick due one interval later; so after the
\* immediate call the second task call starts no sooner than one interval
\* after the immediate call returned, which is when the ticker was started.
C15_TickerAfterImmediate ==
    [][ /\ (ticker = "none" /\ ticker' = "running") =>
               /\ active' = 0
               /\ tickerAt' = now'
               /\ ~tickPending'
               /\ nextTick' = now' + d'
        /\ (c.Immediate /\ started = 1 /\ started' = 2) =>
               /\ ticker = "running"
               /\ completed = 1
               /\ now >= tickerAt + d ]_vars

\* the immediate call took two time units; with an interval of two the
\* second call starts at time four
C15_Witness ==
    /\ c.Immediate
    /\ d = 2
    /\ tickerAt = 2
    /\ pc = "run_task"
    /\ started = 2
    /\ now = 4

\* C16: with Immediate and limit 1 Run is either inside the immediate task
\* call or has returned; it made one task call, never had a ticker, never
\* received a tick, and when that call returned nil Run returned nil,
\* whatever ctx.Err() is.
C16_ImmediateLimitOne ==
    (c.Immediate /\ c.Limit = 1) =>
        /\ pc \in {"runLimit_immediate", "done"}
        /\ started = 1
        /\ ticker = "none"
        /\ ticksRecv = 0
        /\ pc = "done" =>
               IF taskErr = nil
               THEN result = nil /\ completed = 1
               ELSE result = taskErr

\* Immediate, limit 1, ctx done before Run was called: nil after one call
C16_Witness ==
    /\ c = [Immediate |-> TRUE, Limit |-> 1]
    /\ doneAtPc = "idle"
    /\ pc = "done"
    /\ completed = 1
    /\ result = nil

\* the immediate call, if one was made
ImmediateCalls == IF c.Immediate /\ started >= 1 THEN 1 ELSE 0

\* ticks waiting in t.C
Pending == IF tickPending THEN 1 ELSE 0

\* C17: every tick received or waiting was fired, at most one is waiting,
\* a receive empties the channel (the next receive needs a new tick), and
\* every task call but the immediate one took a tick: calls <= ticks fired
\* (+ 1 with Immediate).
C17_NoBacklog ==
    [][ /\ ticksRecv' + Pending' <= ticksFired'
        /\ started' = ticksRecv' + ImmediateCalls'
        /\ started' <= ticksFired' + ImmediateCalls'
        /\ ticksRecv' = ticksRecv + 1 => (tickPending /\ ~tickPending') ]_vars

\* interval 1: the first periodic call lasted two intervals, the two ticks
\* fired meanwhile left one tick, which the second call took
C17_Witness ==
    /\ d = 1
    /\ ~c.Immediate
    /\ pc = "run_task"
    /\ now = 3
    /\ ticksFired = 3
    /\ ticksRecv = 2
    /\ ~tickPending

\* C20: with a limit n >= 0 at most n task calls are started, and the counter
\* of runLimit is n less the task calls that returned nil.
C20_LimitCounts ==
    c.Limit >= 0 =>
        /\ started <= c.Limit
        /\ limit = c.Limit - completed

\* limit 2 with Immediate: the second call in progress, the counter at 1
C20_Witness ==
    /\ c = [Immediate |-> TRUE, Limit |-> 2]
    /\ pc = "runLimit_task"
    /\ started = 2
    /\ completed = 1
    /\ limit = 1

---------------------------------------------------------------------------
(* Runs followed without end.  The clock stops counting at MaxTime, but    *)
(* the ticker goes on firing there.  Fairness: time passes and the timers  *)
(* fire; every task call returns; the select takes a case when one is      *)
(* ready; and, since Go chooses among the ready cases at random, a case    *)
(* that is ready again and again is taken in the end.                      *)

\* the ticker fires beyond the last time the clock counts
TickerBeyond ==
    /\ ticker = "running"
    /\ now = MaxTime
    /\ ~Due
    /\ tickPending' = TRUE
    /\ ticksFired' = Count(ticksFired)
    /\ UNCHANGED << pc, now, ctxVars, task, d, options, c, limit, ticker,
                    tickerAt, nextTick, ticksRecv, histVars, result >>

\* a task call in progress returns
TaskReturns ==
    \E err \in TaskErrors \cup {nil} :
        \/ runLimitImmediate(err)
        \/ runLimitTask(err)
        \/ runImmediate(err)
        \/ runTask(err)

NextLive == Next \/ TickerBeyond

SpecLive ==
    /\ Init
    /\ [][NextLive]_vars
    /\ WF_vars(Advance)
    /\ WF_vars(TickerFire)
    /\ WF_vars(TickerBeyond)
    /\ WF_vars(Deadline)
    /\ WF_vars(TaskReturns)
    /\ WF_vars(runLimitTick \/ runLimitDone)
    /\ WF_vars(runTick \/ runDone)
    /\ SF_vars(runLimitDone)
    /\ SF_vars(runDone)

\* C18: once ctx is done during a Run call whose task calls all return, the
\* call returns.
C18_ReturnsAfterDone ==
    (ctxErr # nil /\ pc \in RunPcs \cup RunLimitPcs) ~> (pc = "done")

\* an unbounded run took a tick and started a task call after ctx was done
C18_Witness ==
    /\ pc = "run_task"
    /\ ctxErr # nil
    /\ doneAtStarted >= 0
    /\ started > doneAtStarted + 1

\* C19: a Run call with a limit n > 0 whose ctx never becomes done returns:
\* with the task's error after the first failing call, or with nil after
\* n calls.
C19_BoundedRunReturns ==
    (pc \in RunLimitPcs) ~>
        \/ ctxErr # nil
        \/ /\ pc = "done"
           /\ \/ taskErr # nil /\ result = taskErr
              \/ taskErr = nil /\ result = nil /\ completed = c.Limit

\* a bounded run returned nil after its limit of calls, ctx never done
C19_Witness ==
    /\ pc = "done"
    /\ ctxErr = nil
    /\ c.Limit = MaxLimit
    /\ completed = MaxLimit
    /\ result = nil

====
